---- MODULE Spec2Model ----
(***************************************************************************)
(* A model of the Simple OBJ Exporter / Importer for Maya                  *)
(* (scripts/SimpleObjExporter.py, scripts/SimpleObjImporter.py).           *)
(*                                                                         *)
(* The state is the persistent tool instance (params, import_paths, the    *)
(* options dialog's widgets), the scene settings node, the JSON defaults   *)
(* file, the host selection, and a record `last` of what the most recent   *)
(* handler did to the host (translator calls, messages, dialogs shown,     *)
(* exception that left the handler).  One action models one whole UI       *)
(* callback.                                                               *)
(*                                                                         *)
(* Paths are sequences of path components (strings); "" is the empty       *)
(* sequence.  Node names are sequences of one-character strings so that    *)
(* clean_filename can be computed character by character.  A host file     *)
(* dialog returns a list of paths; the empty list stands for None.         *)
(***************************************************************************)
EXTENDS Integers, Sequences, FiniteSets, TLC

VARIABLES
    class_instance,   \* SimpleObjExporter.class_instance: NoInstance or an instance id
    constructed,      \* number of SimpleObjExporter() constructor calls in the session
    params,           \* self.params of the instance
    import_paths,     \* self.import_paths of the instance
    popup,            \* self.options_popup: the widgets' values and visibility
    params_node,      \* the scene node 'simpleObjExporterParams': exists, attrs
    json,             \* the defaults file soe_defaults.json: exists, data
    mesh_attrs,       \* user attributes carried by the scene's transforms
    host_selection,   \* the host's current selection (list of transforms)
    temps,            \* working copies (duplicates, combined meshes) alive in the scene
    imp_instance,     \* SimpleObjImporter.class_instance
    imp_constructed,  \* number of SimpleObjImporter() constructor calls
    imp_import_path,  \* SimpleObjImporter.import_path (<<>> is None)
    edits,            \* number of widget edits the user has made in the session
    last              \* what the most recent handler did

vars == <<class_instance, constructed, params, import_paths, popup, params_node,
          json, mesh_attrs, host_selection, temps, imp_instance, imp_constructed,
          imp_import_path, edits, last>>

---------------------------------------------------------------------------
(* Bounds of the model *)

\* longest selection the user makes
MaxSel == 2
\* most widget edits the user makes in a session
MaxEdits == 1

---------------------------------------------------------------------------
(* Data *)

NoInstance == 0

\* the keys of self.params and of self.param_attr_map, in their order
Keys == <<"export_path", "batch_export_path", "always_ask", "triangulate_mesh",
          "move_to_origin", "combine", "use_native_style", "obj_groups",
          "obj_ptgroups", "obj_materials", "obj_smoothing", "obj_normals">>

KeySet == {Keys[i] : i \in 1..Len(Keys)}

StringKeys == {"export_path", "batch_export_path"}

BoolKeys == KeySet \ StringKeys

\* the params the constructor sets up (workspace directory <<"ws">>)
CtorParams ==
    [export_path |-> <<"ws", "objExport", "DefaultExport.obj">>,
     batch_export_path |-> <<"ws", "objExport", "batch">>,
     always_ask |-> FALSE, triangulate_mesh |-> FALSE, move_to_origin |-> FALSE,
     combine |-> FALSE, use_native_style |-> FALSE, obj_groups |-> TRUE,
     obj_ptgroups |-> TRUE, obj_materials |-> TRUE, obj_smoothing |-> TRUE,
     obj_normals |-> TRUE]

\* a node that carries none of the tool's attributes
NoAttrs == [k \in {} |-> FALSE]

\* the transforms of the scene: two meshes (one in a namespace) and an empty group
MeshA == <<"a">>
MeshB == <<"n", ":", "b">>
Group == <<"g">>
Transforms == {MeshA, MeshB, Group}

\* cmds.listRelatives(t, shapes=True) is not None
HasShape(t) == t # Group

RECURSIVE SeqsNoRep(_, _)
\* the lists of at most n distinct elements of S
SeqsNoRep(S, n) ==
    IF n = 0 THEN {<<>>}
    ELSE LET shorter == SeqsNoRep(S, n - 1)
         IN  shorter \cup {Append(s, x) : s \in shorter, x \in S}

NoRep(s) == \A i, j \in 1..Len(s) : i # j => s[i] # s[j]

Selections == {s \in SeqsNoRep(Transforms, MaxSel) : NoRep(s)}

\* what the user can type or browse to in the single-export line edit
FilePaths == {<<"out", "a.obj">>, <<"a.obj">>, <<>>}
\* what the user can type or browse to in the batch line edit
BatchPaths == {<<"out", "batch">>, <<>>}
\* what the user does with a host file dialog
DialogAnswers == {"cancel", "ok"}
\* the files offered by the import dialog
ImportFiles == {<<"in", "x.obj">>, <<"in", "y.obj">>}
\* what the import dialog returns: None (the empty list) or the files picked
ImportDialogResults ==
    {s \in SeqsNoRep(ImportFiles, Cardinality(ImportFiles)) : NoRep(s)}

\* the outcomes of os.path.exists / os.makedirs for a directory
FsOutcomes == {"exists", "created", "refused"}

---------------------------------------------------------------------------
(* Pure helpers *)

\* os.path.dirname
Dirname(path) == IF path = <<>> THEN <<>> ELSE SubSeq(path, 1, Len(path) - 1)

\* os.path.join(dir, name)
PathJoin(dir, name) == Append(dir, name)

StripChars == {" ", ":", "|"}

RECURSIVE LStrip(_)
LStrip(s) == IF s # <<>> /\ Head(s) \in StripChars THEN LStrip(Tail(s)) ELSE s

RECURSIVE RStrip(_)
RStrip(s) ==
    IF s # <<>> /\ s[Len(s)] \in StripChars
    THEN RStrip(SubSeq(s, 1, Len(s) - 1)) ELSE s

\* str.replace(old, new) on a sequence of characters
Replace(s, old, new) == [i \in 1..Len(s) |-> IF s[i] = old THEN new ELSE s[i]]

RECURSIVE Str(_)
\* the string spelled by a sequence of characters
Str(s) == IF s = <<>> THEN "" ELSE Head(s) \o Str(Tail(s))

\* clean_filename(node)
clean_filename(node) ==
    Str(Replace(Replace(RStrip(LStrip(node)), ":", "_"), "|", "_"))

\* show_export_file_dialog(dialog_mode, ...): None (the empty list) when the
\* user cancels, else a one-element list: a file for mode 0, a directory for mode 3
show_export_file_dialog(dialog_mode, answer) ==
    IF answer = "cancel" THEN <<>>
    ELSE IF dialog_mode = 0 THEN << <<"picked", "p.obj">> >>
    ELSE << <<"picked">> >>

\* validate_dir_path(path): [ok, created]
validate_dir_path(path, fs) ==
    IF path = <<>> THEN [ok |-> FALSE, created |-> FALSE]
    ELSE IF fs = "exists" THEN [ok |-> TRUE, created |-> FALSE]
    ELSE IF fs = "created" THEN [ok |-> TRUE, created |-> TRUE]
    ELSE [ok |-> FALSE, created |-> FALSE]

\* get_attr(node, short_name) is not None
HasAttr(attrs, k) == k \in DOMAIN attrs

\* load_attributes: params after reading the attributes a node carries
load_attributes(p, attrs) ==
    [k \in KeySet |-> IF HasAttr(attrs, k) THEN attrs[k] ELSE p[k]]

\* save_attributes: the node's attributes after set_attr of every param
save_attributes(p, attrs) ==
    [k \in (DOMAIN attrs) \cup KeySet |-> IF k \in KeySet THEN p[k] ELSE attrs[k]]

\* build_obj_options_string with the smoothing and normals values in each
\* other's place
build_obj_options_string_swapped(p) ==
    LET groups    == IF p.obj_groups THEN "1" ELSE "0"
        ptgroups  == IF p.obj_ptgroups THEN "1" ELSE "0"
        materials == IF p.obj_materials THEN "1" ELSE "0"
        smoothing == IF p.obj_smoothing THEN "1" ELSE "0"
        normals   == IF p.obj_normals THEN "1" ELSE "0"
    IN  "groups=" \o groups \o ";ptgroups=" \o ptgroups \o ";materials=" \o materials
        \o ";smoothing=" \o normals \o ";normals=" \o smoothing

\* build_obj_options_string
build_obj_options_string(p) ==
    LET groups    == IF p.obj_groups THEN "1" ELSE "0"
        ptgroups  == IF p.obj_ptgroups THEN "1" ELSE "0"
        materials == IF p.obj_materials THEN "1" ELSE "0"
        smoothing == IF p.obj_smoothing THEN "1" ELSE "0"
        normals   == IF p.obj_normals THEN "1" ELSE "0"
    IN  "groups=" \o groups \o ";ptgroups=" \o ptgroups \o ";materials=" \o materials
        \o ";smoothing=" \o smoothing \o ";normals=" \o normals

---------------------------------------------------------------------------
(* The options dialog (class OptionsPopup) *)

\* the widgets as create_widgets leaves them; the dialog is not shown yet
NewPopup ==
    [file_path_le |-> <<>>, batch_path_le |-> <<>>,
     always_ask_cb |-> FALSE, triangulate_cb |-> FALSE, move_to_origin_cb |-> FALSE,
     combine_cb |-> FALSE,
     dialog_style_native_rb |-> FALSE, dialog_style_maya_rb |-> TRUE,
     obj_groups_cb |-> TRUE, obj_ptgroups_cb |-> TRUE, obj_materials_cb |-> TRUE,
     obj_smoothing_cb |-> TRUE, obj_normals_cb |-> TRUE,
     visible |-> FALSE]

\* the checkbox that shows each boolean param (the style choice is a radio pair)
CheckBoxes ==
    {"always_ask_cb", "triangulate_cb", "move_to_origin_cb", "combine_cb",
     "obj_groups_cb", "obj_ptgroups_cb", "obj_materials_cb", "obj_smoothing_cb",
     "obj_normals_cb"}

\* QRadioButton.setChecked on one of the two auto-exclusive radio buttons that
\* share the Tool Options group box: checking one unchecks its sibling, and the
\* checked button of the pair cannot be unchecked
RadioSetChecked(w, button, checked) ==
    LET other == IF button = "dialog_style_native_rb"
                 THEN "dialog_style_maya_rb" ELSE "dialog_style_native_rb"
    IN  IF w[button] = checked THEN w
        ELSE IF checked THEN [w EXCEPT ![button] = TRUE, ![other] = FALSE]
        ELSE w

\* toggle_path_options: the File Export Paths group is enabled
PathOptionsEnabled(w) == ~w.always_ask_cb

\* combine_updated: the batch path line edit and its button are enabled
BatchPathEnabled(w) == ~w.combine_cb

\* the twelve values export_options_accepted and save_defaults read from the widgets
WidgetValues(w) ==
    [export_path |-> w.file_path_le,
     batch_export_path |-> w.batch_path_le,
     always_ask |-> w.always_ask_cb,
     triangulate_mesh |-> w.triangulate_cb,
     move_to_origin |-> w.move_to_origin_cb,
     combine |-> w.combine_cb,
     use_native_style |-> w.dialog_style_native_rb,
     obj_groups |-> w.obj_groups_cb,
     obj_ptgroups |-> w.obj_ptgroups_cb,
     obj_materials |-> w.obj_materials_cb,
     obj_smoothing |-> w.obj_smoothing_cb,
     obj_normals |-> w.obj_normals_cb]

\* show_export_options, lines 550-565: the widgets after the UI update from params
UpdateUI(w, p) ==
    LET w1 == [w EXCEPT !.file_path_le = p.export_path,
                        !.batch_path_le = p.batch_export_path,
                        !.always_ask_cb = p.always_ask,
                        !.triangulate_cb = p.triangulate_mesh,
                        !.move_to_origin_cb = p.move_to_origin,
                        !.combine_cb = p.combine]
        w2 == RadioSetChecked(w1, "dialog_style_native_rb", p.use_native_style)
        w3 == RadioSetChecked(w2, "dialog_style_maya_rb", ~p.use_native_style)
    IN  [w3 EXCEPT !.obj_groups_cb = p.obj_groups,
                   !.obj_ptgroups_cb = p.obj_ptgroups,
                   !.obj_materials_cb = p.obj_materials,
                   !.obj_smoothing_cb = p.obj_smoothing,
                   !.obj_normals_cb = p.obj_normals]

\* OptionsPopup.load_defaults: the widgets after reading the JSON record
LoadDefaultsUI(w, d) ==
    LET w1 == [w EXCEPT !.file_path_le = d.export_path,
                        !.batch_path_le = d.batch_export_path,
                        !.always_ask_cb = d.always_ask,
                        !.triangulate_cb = d.triangulate_mesh,
                        !.move_to_origin_cb = d.move_to_origin,
                        !.combine_cb = d.combine]
        w2 == RadioSetChecked(w1, "dialog_style_native_rb", d.use_native_style)
    IN  [w2 EXCEPT !.obj_groups_cb = d.obj_groups,
                   !.obj_ptgroups_cb = d.obj_ptgroups,
                   !.obj_materials_cb = d.obj_materials,
                   !.obj_smoothing_cb = d.obj_smoothing,
                   !.obj_normals_cb = d.obj_normals]

---------------------------------------------------------------------------
(* What a handler did to the host *)

\* a message shown with om.MGlobal.displayInfo / displayWarning / displayError
Msg(level, what, about, counts) ==
    [level |-> level, what |-> what, about |-> about, counts |-> counts]

\* the record of a handler that has done nothing yet
Did(op) ==
    [op |-> op, calls |-> <<>>, imports |-> <<>>, msgs |-> <<>>, raised |-> "none",
     dialogs |-> 0, picked |-> <<>>, validated |-> "unchecked", dups |-> 0,
     combines |-> 0, created |-> 0, rejected |-> FALSE, self |-> NoInstance]

\* the name polyUnite gives the combined mesh
Combined == <<"polySurface1">>

\* the name of the working copy of a mesh
ExportCopy(mesh) == mesh \o <<"_export">>

---------------------------------------------------------------------------
(* The export command sequence.  A context c carries what the handler has  *)
(* in hand: the instance's params, the scene settings node, the host       *)
(* selection, the working copies alive in the scene and the record `did`   *)
(* of the host calls made so far.                                          *)

Say(c, m) == [c EXCEPT !.did.msgs = Append(@, m)]

Raise(c, exc) == [c EXCEPT !.did.raised = exc]

\* the context after validate_dir_path(dir) returned v: its verdict is noted, and
\* the directory it created is announced
Validated(c, dir, v) ==
    LET c1 == [c EXCEPT !.did.validated = IF v.ok THEN "valid" ELSE "invalid"]
    IN  IF v.created THEN Say(c1, Msg("info", "created_dir", dir, <<>>)) ELSE c1

\* export_mesh with the clean-up after the translator call instead of in a
\* finally clause: a translator failure leaves the working copy selected
export_mesh_without_finally(c, mesh, ok) ==
    LET file_path == c.params.export_path
        dupe_mesh == ExportCopy(mesh)
        c1 == [c EXCEPT !.temps = @ \cup {dupe_mesh},
                        !.did.dups = @ + 1,
                        !.sel = <<dupe_mesh>>]
        c2 == IF ok
              THEN Say(c1, Msg("info", "exported", file_path, <<>>))
              ELSE Say(c1, Msg("error", "unable_to_export", mesh, <<>>))
        c3 == IF ok THEN [c2 EXCEPT !.temps = @ \ {dupe_mesh}, !.sel = <<mesh>>] ELSE c2
        call == [mesh |-> mesh, file_path |-> file_path,
                 options |-> build_obj_options_string(c.params),
                 triangulated |-> c.params.triangulate_mesh,
                 moved_to_origin |-> c.params.move_to_origin,
                 params |-> c.params, asked_before |-> c.did.dialogs,
                 ok |-> ok, returned |-> ok,
                 temps_after |-> c3.temps, sel_after |-> c3.sel]
    IN  [c3 EXCEPT !.did.calls = Append(@, call)]

\* export_mesh(mesh); ok: the translator does not raise RuntimeError.
\* The call is logged with the number of path dialogs shown before it, with
\* what export_mesh returned and with the working copies and the selection it
\* left behind.
export_mesh(c, mesh, ok) ==
    LET file_path == c.params.export_path
        dupe_mesh == ExportCopy(mesh)
        \* cmds.duplicate, preprocess_mesh, cmds.select(dupe_mesh)
        c1 == [c EXCEPT !.temps = @ \cup {dupe_mesh},
                        !.did.dups = @ + 1,
                        !.sel = <<dupe_mesh>>]
        \* try: cmds.file(...); except RuntimeError: displayError
        c2 == IF ok
              THEN Say(c1, Msg("info", "exported", file_path, <<>>))
              ELSE Say(c1, Msg("error", "unable_to_export", mesh, <<>>))
        result == ok
        \* finally: cmds.delete(dupe_mesh); cmds.select(mesh)
        c3 == [c2 EXCEPT !.temps = @ \ {dupe_mesh}, !.sel = <<mesh>>]
        call == [mesh |-> mesh, file_path |-> file_path,
                 options |-> build_obj_options_string(c.params),
                 triangulated |-> c.params.triangulate_mesh,
                 moved_to_origin |-> c.params.move_to_origin,
                 params |-> c.params, asked_before |-> c.did.dialogs,
                 ok |-> ok, returned |-> result,
                 temps_after |-> c3.temps, sel_after |-> c3.sel]
    IN  [c3 EXCEPT !.did.calls = Append(@, call)]

\* export_single taking the stored export_path without looking at always_ask
export_single_never_asks(c, mesh, answer, fs, ok) ==
    LET dir == Dirname(c.params.export_path)
        v  == validate_dir_path(dir, fs)
        c2 == Validated(c, dir, v)
    IN  IF v.ok
        THEN export_mesh(c2, mesh, ok)
        ELSE Say(c2, Msg("error", "invalid_export_path", c2.params.export_path, <<>>))

\* export_single(mesh); answer: what the user does with the file dialog, fs: the
\* state of the destination directory, ok: the translator's outcome
export_single(c, mesh, answer, fs, ok) ==
    LET asked == c.params.always_ask
        dlg == show_export_file_dialog(0, answer)
        c0 == IF asked THEN [c EXCEPT !.did.dialogs = @ + 1] ELSE c
    IN  IF asked /\ dlg = <<>>
        THEN Raise(c0, "TypeError")      \* None[0]
        ELSE LET c1 == IF asked THEN [c0 EXCEPT !.params.export_path = dlg[1]] ELSE c0
                 dir == Dirname(c1.params.export_path)
                 v  == validate_dir_path(dir, fs)
                 c2 == Validated(c1, dir, v)
             IN  IF v.ok
                 THEN export_mesh(c2, mesh, ok)
                 ELSE Say(c2, Msg("error", "invalid_export_path",
                                  c2.params.export_path, <<>>))

RECURSIVE BatchLoop(_, _, _, _, _, _)
RECURSIVE BatchLoopStopsAtFailure(_, _, _, _, _, _)
\* the batch loop leaving the loop at the first mesh that fails
BatchLoopStopsAtFailure(c, meshes, i, oks, successful, failed) ==
    IF i > Len(meshes) \/ failed > 0
    THEN IF failed > 0
         THEN Say(c, Msg("warning", "exported_n_of_m", <<>>,
                         <<successful, successful + failed>>))
         ELSE Say(c, Msg("info", "exported_n_of_m", <<>>,
                         <<successful, successful + failed>>))
    ELSE LET curr_mesh == meshes[i]
             file_path == PathJoin(c.params.batch_export_path,
                                   clean_filename(curr_mesh) \o ".obj")
             c1 == [c EXCEPT !.params.export_path = file_path]
             c2 == export_mesh(c1, curr_mesh, oks[i])
             result == c2.did.calls[Len(c2.did.calls)].returned
         IN  IF result
             THEN BatchLoopStopsAtFailure(c2, meshes, i + 1, oks, successful + 1, failed)
             ELSE BatchLoopStopsAtFailure(c2, meshes, i + 1, oks, successful, failed + 1)

\* export_batch, lines 420-442: the loop from index i on, and the report
BatchLoop(c, meshes, i, oks, successful, failed) ==
    IF i > Len(meshes)
    THEN IF failed > 0
         THEN Say(c, Msg("warning", "exported_n_of_m", <<>>,
                         <<successful, successful + failed>>))
         ELSE Say(c, Msg("info", "exported_n_of_m", <<>>,
                         <<successful, successful + failed>>))
    ELSE LET curr_mesh == meshes[i]
             file_path == PathJoin(c.params.batch_export_path,
                                   clean_filename(curr_mesh) \o ".obj")
             c1 == [c EXCEPT !.params.export_path = file_path]
             c2 == export_mesh(c1, curr_mesh, oks[i])
             result == c2.did.calls[Len(c2.did.calls)].returned
         IN  IF result
             THEN BatchLoop(c2, meshes, i + 1, oks, successful + 1, failed)
             ELSE BatchLoop(c2, meshes, i + 1, oks, successful, failed + 1)

\* export_batch going on with the loop after the directory was rejected
export_batch_without_bail_out(c, meshes, answer, fs, oks) ==
    LET asked == c.params.always_ask
        dlg == show_export_file_dialog(3, answer)
        c0 == IF asked THEN [c EXCEPT !.did.dialogs = @ + 1] ELSE c
    IN  IF asked /\ dlg = <<>>
        THEN Raise(c0, "TypeError")
        ELSE LET c1 == IF asked
                       THEN [c0 EXCEPT !.params.batch_export_path = dlg[1]] ELSE c0
                 dir == c1.params.batch_export_path
                 v  == validate_dir_path(dir, fs)
                 c2 == Validated(c1, dir, v)
             IN  IF ~v.ok
                 THEN BatchLoop(Say(c2, Msg("error", "batch_path_not_valid", dir, <<>>)),
                                meshes, 1, oks, 0, 0)
                 ELSE BatchLoop(c2, meshes, 1, oks, 0, 0)

\* export_batch(meshes); answer: what the user does with the directory dialog,
\* fs: the state of the batch directory, oks: the translator's outcome for each mesh
export_batch(c, meshes, answer, fs, oks) ==
    LET asked == c.params.always_ask
        dlg == show_export_file_dialog(3, answer)
        c0 == IF asked THEN [c EXCEPT !.did.dialogs = @ + 1] ELSE c
    IN  IF asked /\ dlg = <<>>
        THEN Raise(c0, "TypeError")      \* None[0]
        ELSE LET c1 == IF asked
                       THEN [c0 EXCEPT !.params.batch_export_path = dlg[1]] ELSE c0
                 dir == c1.params.batch_export_path
                 v  == validate_dir_path(dir, fs)
                 c2 == Validated(c1, dir, v)
             IN  IF ~v.ok
                 THEN Say(c2, Msg("error", "batch_path_not_valid", dir, <<>>))
                 ELSE BatchLoop(c2, meshes, 1, oks, 0, 0)

\* combine_meshes(meshes): duplicate, polyUnite, delete history
combine_meshes(c, meshes) ==
    [c EXCEPT !.did.combines = @ + 1, !.temps = @ \cup {Combined},
              !.sel = <<Combined>>]

\* export_selection combining every selection of several meshes, whatever the
\* combine flag says
export_selection_combining_always(c, selection, answer, fs, oks) ==
    LET c1 == [c EXCEPT !.params = load_attributes(@, c.node.attrs)]
        c2 == IF Len(selection) = 1
              THEN export_single(c1, selection[1], answer, fs, oks[1])
              ELSE IF Len(selection) > 1
              THEN LET k1 == combine_meshes(c1, selection)
                       k2 == export_single(k1, Combined, answer, fs, oks[1])
                   IN  IF k2.did.raised # "none" THEN k2
                       ELSE [k2 EXCEPT !.temps = @ \ {Combined}]
              ELSE Say(c1, Msg("error", "empty_selection", <<>>, <<>>))
    IN  IF c2.did.raised # "none" THEN c2
        ELSE [c2 EXCEPT !.params = load_attributes(@, c2.node.attrs),
                        !.sel = selection]

\* export_selection without the final load_attributes: the paths written into
\* params during the export stay there
export_selection_without_reset(c, selection, answer, fs, oks) ==
    LET c1 == [c EXCEPT !.params = load_attributes(@, c.node.attrs)]
        c2 == IF Len(selection) = 1
              THEN export_single(c1, selection[1], answer, fs, oks[1])
              ELSE IF Len(selection) > 1
              THEN IF c1.params.combine
                   THEN LET k1 == combine_meshes(c1, selection)
                            k2 == export_single(k1, Combined, answer, fs, oks[1])
                        IN  IF k2.did.raised # "none" THEN k2
                            ELSE [k2 EXCEPT !.temps = @ \ {Combined}]
                   ELSE export_batch(c1, selection, answer, fs, oks)
              ELSE Say(c1, Msg("error", "empty_selection", <<>>, <<>>))
    IN  IF c2.did.raised # "none" THEN c2
        ELSE [c2 EXCEPT !.sel = selection]

\* export_selection(selection)
export_selection(c, selection, answer, fs, oks) ==
    LET c1 == [c EXCEPT !.params = load_attributes(@, c.node.attrs)]
        c2 == IF Len(selection) = 1
              THEN export_single(c1, selection[1], answer, fs, oks[1])
              ELSE IF Len(selection) > 1
              THEN IF c1.params.combine
                   THEN LET k1 == combine_meshes(c1, selection)
                            k2 == export_single(k1, Combined, answer, fs, oks[1])
                        IN  IF k2.did.raised # "none" THEN k2
                            ELSE [k2 EXCEPT !.temps = @ \ {Combined}]
                   ELSE export_batch(c1, selection, answer, fs, oks)
              ELSE Say(c1, Msg("error", "empty_selection", <<>>, <<>>))
    IN  IF c2.did.raised # "none" THEN c2
        ELSE \* finally, reset to scene params
             [c2 EXCEPT !.params = load_attributes(@, c2.node.attrs),
                        !.sel = selection]

\* init_export_params creating the node from the params held in memory,
\* without reading the defaults file
init_export_params_keeps_memory(c) ==
    IF c.node.exists
    THEN [c EXCEPT !.params = load_attributes(@, c.node.attrs)]
    ELSE [c EXCEPT !.node = [exists |-> TRUE,
                             attrs |-> save_attributes(c.params, NoAttrs)],
                   !.did.created = @ + 1,
                   !.sel = <<>>]

\* init_export_params; cmds.createNode is counted in did.created
init_export_params(c) ==
    IF c.node.exists
    THEN [c EXCEPT !.params = load_attributes(@, c.node.attrs)]
    ELSE LET p == IF c.json.exists THEN c.json.data ELSE c.params
         IN  [c EXCEPT !.params = p,
                       !.node = [exists |-> TRUE, attrs |-> save_attributes(p, NoAttrs)],
                       !.did.created = @ + 1,
                       !.sel = <<>>]

\* show_export_options
show_export_options(c) ==
    LET c1 == init_export_params(c)
    IN  [c1 EXCEPT !.popup = [UpdateUI(@, c1.params) EXCEPT !.visible = TRUE]]

\* the first transform of the selection that has no shape node, 0 if none
FirstNonMesh(selection) ==
    IF \A i \in 1..Len(selection) : HasShape(selection[i]) THEN 0
    ELSE CHOOSE i \in 1..Len(selection) :
            /\ ~HasShape(selection[i])
            /\ \A j \in 1..(i - 1) : HasShape(selection[j])

\* export_pressed bringing the params up to date before it validates the selection
export_pressed_init_first(c, answer, fs, oks) ==
    LET selection == c.sel
        c1 == init_export_params(c)
    IN  IF Len(selection) <= 0
        THEN show_export_options(c)
        ELSE IF FirstNonMesh(selection) # 0
        THEN [Say(c1, Msg("error", "not_a_mesh", selection[FirstNonMesh(selection)], <<>>))
                EXCEPT !.did.rejected = TRUE]
        ELSE export_selection(c1, selection, answer, fs, oks)

\* export_pressed
export_pressed(c, answer, fs, oks) ==
    LET selection == c.sel
    IN  IF Len(selection) <= 0
        THEN show_export_options(c)
        ELSE IF FirstNonMesh(selection) # 0
        THEN [Say(c, Msg("error", "not_a_mesh", selection[FirstNonMesh(selection)], <<>>))
                EXCEPT !.did.rejected = TRUE]
        ELSE export_selection(init_export_params(c), selection, answer, fs, oks)

---------------------------------------------------------------------------
(* The import command sequence *)

\* show_import_options reporting success also when the dialog was cancelled
show_import_options_always_true(c, dlg) ==
    LET c1 == [c EXCEPT !.did.dialogs = @ + 1, !.did.picked = dlg]
    IN  IF dlg # <<>>
        THEN [c |-> [c1 EXCEPT !.import_paths = dlg], result |-> TRUE]
        ELSE [c |-> c1, result |-> TRUE]

\* show_import_options; dlg: what the import dialog returns.  [c, result]
show_import_options(c, dlg) ==
    LET c1 == [c EXCEPT !.did.dialogs = @ + 1, !.did.picked = dlg]
    IN  IF dlg # <<>>
        THEN [c |-> [c1 EXCEPT !.import_paths = dlg], result |-> TRUE]
        ELSE [c |-> c1, result |-> FALSE]

RECURSIVE ImportLoopStopsAtFailure(_, _, _, _)
\* the import loop leaving the loop at the first file that fails
ImportLoopStopsAtFailure(did, paths, i, oks) ==
    IF i > Len(paths) THEN did
    ELSE LET import_path == paths[i]
             d1 == [did EXCEPT !.imports =
                        Append(@, [path |-> import_path, ok |-> oks[i]])]
         IN  IF oks[i] THEN ImportLoopStopsAtFailure(d1, paths, i + 1, oks)
             ELSE [d1 EXCEPT !.msgs =
                      Append(@, Msg("error", "unable_to_import", import_path, <<>>))]

RECURSIVE ImportLoop(_, _, _, _)
\* the import loop of import_pressed and import_objs from index i on
ImportLoop(did, paths, i, oks) ==
    IF i > Len(paths) THEN did
    ELSE LET import_path == paths[i]
             d1 == [did EXCEPT !.imports =
                        Append(@, [path |-> import_path, ok |-> oks[i]])]
             d2 == IF oks[i] THEN d1
                   ELSE [d1 EXCEPT !.msgs =
                            Append(@, Msg("error", "unable_to_import", import_path, <<>>))]
         IN  ImportLoop(d2, paths, i + 1, oks)

\* import_pressed showing the path dialog at every press
import_pressed_always_asks(c, dlg, oks) ==
    LET shown == show_import_options(c, dlg)
    IN  IF ~shown.result
        THEN Say(shown.c, Msg("warning", "no_valid_paths", <<>>, <<>>))
        ELSE [shown.c EXCEPT !.did = ImportLoop(@, shown.c.import_paths, 1, oks)]

\* import_pressed; oks: the translator's outcome for each file
import_pressed(c, dlg, oks) ==
    LET shown == IF Len(c.import_paths) = 0
                 THEN show_import_options(c, dlg)
                 ELSE [c |-> c, result |-> TRUE]
    IN  IF ~shown.result
        THEN Say(shown.c, Msg("warning", "no_valid_paths", <<>>, <<>>))
        ELSE [shown.c EXCEPT !.did = ImportLoop(@, shown.c.import_paths, 1, oks)]

\* SimpleObjImporter.show_path_dialog: [import_path, did]
show_path_dialog(import_path, did, dlg) ==
    [import_path |-> IF dlg # <<>> THEN dlg ELSE import_path,
     did |-> [did EXCEPT !.dialogs = @ + 1, !.picked = dlg]]

\* SimpleObjImporter.import_objs: [import_path, did]
import_objs(import_path, did, dlg, oks) ==
    LET s1 == IF import_path = <<>>
              THEN show_path_dialog(import_path, did, dlg)
              ELSE [import_path |-> import_path, did |-> did]
    IN  IF s1.import_path = <<>> THEN s1
        ELSE [s1 EXCEPT !.did = ImportLoop(@, s1.import_path, 1, oks)]

---------------------------------------------------------------------------
(* The shelf buttons *)

\* a shelf button that constructs an instance at every press
AlwaysNeedsInstance(ci) == TRUE

\* `if not cls.class_instance`
NeedsInstance(ci) == ci = NoInstance

\* SimpleObjExporter.__init__ writes the defaults file if there is none
CtorJson(j) == IF j.exists THEN j ELSE [exists |-> TRUE, data |-> CtorParams]

\* the context a shelf button's handler starts from: the class instance,
\* constructed first if there is none
Entry(op) ==
    LET fresh == NeedsInstance(class_instance)
    IN  [params |-> IF fresh THEN CtorParams ELSE params,
         import_paths |-> IF fresh THEN <<>> ELSE import_paths,
         popup |-> IF fresh THEN NewPopup ELSE popup,
         json |-> IF fresh THEN CtorJson(json) ELSE json,
         node |-> params_node,
         sel |-> host_selection,
         temps |-> temps,
         did |-> Did(op)]

\* the state a shelf button leaves: the handler's context written back
Leave(c) ==
    /\ class_instance' = IF NeedsInstance(class_instance)
                         THEN constructed + 1 ELSE class_instance
    /\ constructed' = IF NeedsInstance(class_instance)
                      THEN constructed + 1 ELSE constructed
    /\ params' = c.params
    /\ import_paths' = c.import_paths
    /\ popup' = c.popup
    /\ json' = c.json
    /\ params_node' = c.node
    /\ host_selection' = c.sel
    /\ temps' = c.temps
    /\ last' = [c.did EXCEPT !.self = class_instance']
    /\ UNCHANGED <<mesh_attrs, imp_instance, imp_constructed, imp_import_path, edits>>

Outcomes(n) == [1..n -> BOOLEAN]

\* The host's answers a press of the export button can meet.  A path dialog is
\* answered only if it is shown (always_ask in the params export_selection
\* loads), a directory is looked at only if the dialog gave one, and the
\* translator is called once, or once for each mesh of a batch.
ExportInputs(e) ==
    LET selection == e.sel
        c0 == init_export_params(e)
        p  == load_attributes(c0.params, c0.node.attrs)
        exports == Len(selection) > 0 /\ FirstNonMesh(selection) = 0
        answers == IF exports /\ p.always_ask THEN DialogAnswers ELSE {"ok"}
        calls == IF ~exports THEN 0
                 ELSE IF Len(selection) > 1 /\ ~p.combine THEN Len(selection) ELSE 1
    IN  {[answer |-> a, fs |-> f, oks |-> o] :
            a \in answers,
            f \in IF exports THEN FsOutcomes ELSE {"exists"},
            o \in Outcomes(calls)}

export_shelf_button ==
    LET e == Entry("export_pressed")
    IN  \E in \in ExportInputs(e) :
            Leave(export_pressed(e, in.answer, in.fs, in.oks))

export_shelf_button_alt ==
    Leave(show_export_options(Entry("show_export_options")))

\* the answers the import dialog can give when the handler starts with `stored`
\* paths: it is shown only if none is stored
ImportAnswers(stored) == IF Len(stored) = 0 THEN ImportDialogResults ELSE {<<>>}

\* the files the import loop goes through
ToImport(stored, dlg) == IF Len(stored) = 0 THEN dlg ELSE stored

import_shelf_button ==
    LET e == Entry("import_pressed")
    IN  \E dlg \in ImportAnswers(e.import_paths) :
            \E oks \in Outcomes(Len(ToImport(e.import_paths, dlg))) :
                Leave(import_pressed(e, dlg, oks))

import_shelf_button_alt ==
    \E dlg \in ImportDialogResults :
        LET shown == show_import_options(Entry("import_shelf_button_alt"), dlg)
        IN  IF shown.result
            THEN \E oks \in Outcomes(Len(shown.c.import_paths)) :
                    Leave(import_pressed(shown.c, dlg, oks))
            ELSE Leave(shown.c)

---------------------------------------------------------------------------
(* The options dialog's signals.  The dialog belongs to the instance and   *)
(* is on screen only after show_export_options.                            *)

DialogOpen == class_instance # NoInstance /\ popup.visible

Scene == <<params_node, mesh_attrs, host_selection, temps>>
Importer == <<imp_instance, imp_constructed, imp_import_path>>

\* the user edits widgets: only the dialog changes
Edited(w, op) ==
    /\ edits < MaxEdits
    /\ w # popup
    /\ popup' = w
    /\ edits' = edits + 1
    /\ last' = [Did(op) EXCEPT !.self = class_instance]
    /\ UNCHANGED <<class_instance, constructed, params, import_paths, json>>
    /\ UNCHANGED <<Scene, Importer>>

\* the user ticks or unticks a checkbox
ToggleCheckBox ==
    /\ DialogOpen
    /\ \E cb \in CheckBoxes : Edited([popup EXCEPT ![cb] = ~@], "toggle")

\* the user clicks one of the two radio buttons
ClickRadio ==
    /\ DialogOpen
    /\ \E rb \in {"dialog_style_native_rb", "dialog_style_maya_rb"} :
          Edited(RadioSetChecked(popup, rb, TRUE), "click_radio")

\* the user types in the single-export line edit
EditFilePath ==
    /\ DialogOpen /\ PathOptionsEnabled(popup)
    /\ \E path \in FilePaths : Edited([popup EXCEPT !.file_path_le = path], "edit_file_path")

\* the user types in the batch line edit
EditBatchPath ==
    /\ DialogOpen /\ PathOptionsEnabled(popup) /\ BatchPathEnabled(popup)
    /\ \E path \in BatchPaths :
          Edited([popup EXCEPT !.batch_path_le = path], "edit_batch_path")

\* OptionsPopup.set_file_path: the browse button of the single-export path
set_file_path ==
    /\ DialogOpen /\ PathOptionsEnabled(popup)
    /\ \E answer \in DialogAnswers :
        LET file_path == show_export_file_dialog(0, answer)
        IN  /\ file_path # <<>>
            /\ Edited([popup EXCEPT !.file_path_le = file_path[1]], "set_file_path")

\* OptionsPopup.set_batch_path: the browse button of the batch path
set_batch_path ==
    /\ DialogOpen /\ PathOptionsEnabled(popup) /\ BatchPathEnabled(popup)
    /\ \E answer \in DialogAnswers :
        LET batch_path == show_export_file_dialog(3, answer)
        IN  /\ batch_path # <<>>
            /\ Edited([popup EXCEPT !.batch_path_le = batch_path[1]], "set_batch_path")

\* OptionsPopup.load_defaults
load_defaults ==
    /\ DialogOpen /\ json.exists
    /\ popup' = LoadDefaultsUI(popup, json.data)
    /\ last' = [Did("load_defaults") EXCEPT
                    !.self = class_instance,
                    !.msgs = <<Msg("info", "read_defaults", <<>>, <<>>)>>]
    /\ UNCHANGED <<class_instance, constructed, params, import_paths, json, edits>>
    /\ UNCHANGED <<Scene, Importer>>

\* OptionsPopup.save_defaults
save_defaults ==
    /\ DialogOpen
    /\ json' = [exists |-> TRUE, data |-> WidgetValues(popup)]
    /\ last' = [Did("save_defaults") EXCEPT
                    !.self = class_instance,
                    !.msgs = <<Msg("info", "saved_defaults", <<>>, <<>>)>>]
    /\ UNCHANGED <<class_instance, constructed, params, import_paths, popup, edits>>
    /\ UNCHANGED <<Scene, Importer>>

\* Save Settings: QDialog.accept, whose accepted signal runs
\* export_options_accepted.  set_attr fails on a node that is not in the scene.
export_options_accepted ==
    /\ DialogOpen
    /\ params' = WidgetValues(popup)
    /\ popup' = [popup EXCEPT !.visible = FALSE]
    /\ IF params_node.exists
       THEN /\ params_node' = [params_node EXCEPT
                                  !.attrs = save_attributes(params', @)]
            /\ last' = [Did("export_options_accepted") EXCEPT !.self = class_instance]
       ELSE /\ params_node' = params_node
            /\ last' = [Did("export_options_accepted") EXCEPT
                            !.self = class_instance, !.raised = "HostError"]
    /\ UNCHANGED <<class_instance, constructed, import_paths, json, edits>>
    /\ UNCHANGED <<mesh_attrs, host_selection, temps, Importer>>

\* Cancel saving the dialog's values as Save Settings does
reject_saving ==
    /\ DialogOpen
    /\ params' = WidgetValues(popup)
    /\ popup' = [popup EXCEPT !.visible = FALSE]
    /\ params_node' = IF params_node.exists
                      THEN [params_node EXCEPT !.attrs = save_attributes(params', @)]
                      ELSE params_node
    /\ last' = [Did("reject") EXCEPT !.self = class_instance]
    /\ UNCHANGED <<class_instance, constructed, import_paths, json, edits>>
    /\ UNCHANGED <<mesh_attrs, host_selection, temps, Importer>>

\* Cancel: QDialog.reject
reject ==
    /\ DialogOpen
    /\ popup' = [popup EXCEPT !.visible = FALSE]
    /\ last' = [Did("reject") EXCEPT !.self = class_instance]
    /\ UNCHANGED <<class_instance, constructed, params, import_paths, json, edits>>
    /\ UNCHANGED <<Scene, Importer>>

---------------------------------------------------------------------------
(* The host: the user selects transforms and opens scenes *)

\* a settings node as the tool saved it in a scene in an earlier session
SavedNode ==
    [exists |-> TRUE,
     attrs |-> [CtorParams EXCEPT !.export_path = <<"out", "a.obj">>,
                                  !.triangulate_mesh = TRUE,
                                  !.obj_materials = FALSE]]

NoNode == [exists |-> FALSE, attrs |-> NoAttrs]

SceneNodes == {NoNode, SavedNode}

\* a defaults file as the tool saved it in an earlier session
SavedJson ==
    [exists |-> TRUE,
     data |-> [CtorParams EXCEPT !.batch_export_path = <<"out", "batch">>,
                                 !.move_to_origin = TRUE,
                                 !.use_native_style = TRUE,
                                 !.obj_normals = FALSE]]

NoJson == [exists |-> FALSE, data |-> CtorParams]

JsonFiles == {NoJson, SavedJson}

\* no transform carries any of the tool's attributes
NoOverrides == [t \in Transforms |-> NoAttrs]

Select ==
    /\ \E s \in Selections :
          /\ s # host_selection
          /\ host_selection' = s
    /\ last' = Did("select")
    /\ UNCHANGED <<class_instance, constructed, params, import_paths, popup, json,
                   params_node, mesh_attrs, temps, edits, Importer>>

\* File > New, or File > Open of a scene saved with the tool's node
OpenScene ==
    /\ \E n \in SceneNodes : params_node' = n
    /\ host_selection' = <<>>
    /\ temps' = {}
    /\ last' = Did("open_scene")
    /\ UNCHANGED <<class_instance, constructed, params, import_paths, popup, json,
                   mesh_attrs, edits, Importer>>

\* SimpleObjImporter.shelf_button_clicked
shelf_button_clicked ==
    LET fresh == NeedsInstance(imp_instance)
        stored == IF fresh THEN <<>> ELSE imp_import_path
    IN  \E dlg \in ImportAnswers(stored) :
          \E oks \in Outcomes(Len(ToImport(stored, dlg))) :
            LET r == import_objs(stored, Did("import_objs"), dlg, oks)
            IN
            /\ imp_instance' = IF fresh THEN imp_constructed + 1 ELSE imp_instance
            /\ imp_constructed' = IF fresh THEN imp_constructed + 1 ELSE imp_constructed
            /\ imp_import_path' = r.import_path
            /\ last' = [r.did EXCEPT !.self = imp_instance']
            /\ UNCHANGED <<class_instance, constructed, params, import_paths, popup,
                           json, edits, Scene>>

\* SimpleObjImporter.shelf_button_alt_clicked
shelf_button_alt_clicked ==
    \E dlg \in ImportDialogResults :
        LET fresh == NeedsInstance(imp_instance)
            r == show_path_dialog(IF fresh THEN <<>> ELSE imp_import_path,
                                  Did("show_path_dialog"), dlg)
        IN  /\ imp_instance' = IF fresh THEN imp_constructed + 1 ELSE imp_instance
            /\ imp_constructed' = IF fresh THEN imp_constructed + 1 ELSE imp_constructed
            /\ imp_import_path' = r.import_path
            /\ last' = [r.did EXCEPT !.self = imp_instance']
            /\ UNCHANGED <<class_instance, constructed, params, import_paths, popup,
                           json, edits, Scene>>

---------------------------------------------------------------------------
(* The session: nothing has been constructed yet; the scene and the        *)
(* defaults file are what earlier sessions left.                           *)

Start(nodes, jsons, overrides) ==
    /\ class_instance = NoInstance
    /\ constructed = 0
    /\ params = CtorParams
    /\ import_paths = <<>>
    /\ popup = NewPopup
    /\ params_node \in nodes
    /\ json \in jsons
    /\ mesh_attrs \in overrides
    /\ host_selection = <<>>
    /\ temps = {}
    /\ imp_instance = NoInstance
    /\ imp_constructed = 0
    /\ imp_import_path = <<>>
    /\ edits = 0
    /\ last = Did("start")

\* a scene whose mesh "a" carries two of the tool's attributes as overrides
MeshAOverrides ==
    [t \in Transforms |->
        IF t = MeshA
        THEN [k \in {"triangulate_mesh", "obj_normals"} |-> (k = "triangulate_mesh")]
        ELSE NoAttrs]

\* settings nodes as Save Settings can have left them in a scene
ExportNodes ==
    {[exists |-> TRUE,
      attrs |-> [CtorParams EXCEPT !.always_ask = a, !.combine = c,
                                   !.move_to_origin = m,
                                   !.export_path = paths[1],
                                   !.batch_export_path = paths[2]]] :
        a \in BOOLEAN, c \in BOOLEAN, m \in BOOLEAN,
        paths \in {<< <<"out", "a.obj">>, <<"out", "batch">> >>,
                   << <<"a.obj">>, <<>> >>}}

\* settings nodes with every combination of the five OBJ flags
FlagNodes ==
    {[exists |-> TRUE,
      attrs |-> [CtorParams EXCEPT !.obj_groups = f[1], !.obj_ptgroups = f[2],
                                   !.obj_materials = f[3], !.obj_smoothing = f[4],
                                   !.obj_normals = f[5], !.combine = c]] :
        f \in [1..5 -> BOOLEAN], c \in BOOLEAN}

\* the shelf: the four buttons, the selection, and the dialog's style choice,
\* Save Settings and Cancel
InitShelf == Start(SceneNodes, {NoJson}, {NoOverrides})

NextShelf ==
    \/ export_shelf_button
    \/ export_shelf_button_alt
    \/ import_shelf_button
    \/ import_shelf_button_alt
    \/ ClickRadio
    \/ export_options_accepted
    \/ reject
    \/ Select

SpecShelf == InitShelf /\ [][NextShelf]_vars

\* the options dialog and the three tiers of settings
InitDialog == Start(SceneNodes, JsonFiles, {NoOverrides})

NextDialog ==
    \/ export_shelf_button_alt
    \/ ToggleCheckBox
    \/ ClickRadio
    \/ EditFilePath
    \/ EditBatchPath
    \/ set_file_path
    \/ set_batch_path
    \/ load_defaults
    \/ save_defaults
    \/ export_options_accepted
    \/ reject
    \/ OpenScene

SpecDialog == InitDialog /\ [][NextDialog]_vars

\* exporting selections from scenes with saved settings
InitExport ==
    Start(ExportNodes \cup SceneNodes, JsonFiles, {NoOverrides, MeshAOverrides})

NextExport ==
    \/ export_shelf_button
    \/ Select

SpecExport == InitExport /\ [][NextExport]_vars

\* exporting under every combination of the OBJ flags
InitFlags == Start(FlagNodes, {SavedJson}, {NoOverrides})

SpecFlags == InitFlags /\ [][NextExport]_vars

\* the two import tools
InitImport == Start({NoNode}, JsonFiles, {NoOverrides})

NextImport ==
    \/ import_shelf_button
    \/ import_shelf_button_alt
    \/ shelf_button_clicked
    \/ shelf_button_alt_clicked

SpecImport == InitImport /\ [][NextImport]_vars

---------------------------------------------------------------------------
(* Properties *)

\* the most recent handler was export_pressed and it called the translator
Exported == last.op = "export_pressed" /\ last.calls # <<>>

\* the most recent handler showed a message of this level and kind
Showed(level, what) ==
    \E i \in 1..Len(last.msgs) :
        last.msgs[i].level = level /\ last.msgs[i].what = what

\* the most recent export ran the batch loop over the selection
BatchRan ==
    /\ last.op = "export_pressed"
    /\ ~last.rejected
    /\ last.raised = "none"
    /\ Len(host_selection) > 1
    /\ ~params.combine
    /\ last.validated = "valid"

\* the value the three tiers give key k for mesh m: the mesh's own attribute,
\* else the settings node's, else the defaults file's
Resolved(m, k) ==
    IF m \in Transforms /\ HasAttr(mesh_attrs[m], k) THEN mesh_attrs[m][k]
    ELSE IF HasAttr(params_node.attrs, k) THEN params_node.attrs[k]
    ELSE json.data[k]

\* the keys whose value in force at a translator call comes from the settings:
\* all the switches, and the path the export takes from the settings when it
\* is not asked for (the batch directory in a batch, else the export path)
SettingKeys(call) ==
    BoolKeys \cup
    (IF call.params.always_ask THEN {}
     ELSE IF Len(host_selection) > 1 /\ ~call.params.combine
          THEN {"batch_export_path"} ELSE {"export_path"})

\* C1: for every exported mesh and every settings key, the value used for the
\* export is the mesh's own override when it carries one, else the scene
\* settings node's attribute, else the JSON defaults' value.
C1_Precedence ==
    Exported =>
        \A i \in 1..Len(last.calls) :
            LET call == last.calls[i]
            IN  \A k \in SettingKeys(call) :
                    /\ call.params[k] = Resolved(call.mesh, k)
                    /\ call.triangulated = Resolved(call.mesh, "triangulate_mesh")
                    /\ call.moved_to_origin = Resolved(call.mesh, "move_to_origin")

\* the number of translator calls of the last handler that succeeded
Succeeded == Cardinality({i \in 1..Len(last.calls) : last.calls[i].ok})

\* C2: a batch export of n meshes attempts every mesh exactly once in
\* selection order whichever of them fail, and ends with one report whose
\* counts are (translator successes, n): a warning iff some export failed,
\* otherwise an info message.
C2_BatchReport ==
    BatchRan =>
        LET n == Len(host_selection)
            report == last.msgs[Len(last.msgs)]
        IN  /\ Len(last.calls) = n
            /\ \A i \in 1..n : last.calls[i].mesh = host_selection[i]
            /\ report.what = "exported_n_of_m"
            /\ report.counts = <<Succeeded, n>>
            /\ report.level = (IF Succeeded < n THEN "warning" ELSE "info")
            /\ Cardinality({i \in 1..Len(last.msgs) :
                               last.msgs[i].what = "exported_n_of_m"}) = 1

\* a batch in which the first mesh failed and a later one was exported
C2_Witness ==
    /\ BatchRan
    /\ ~last.calls[1].ok
    /\ last.calls[2].ok
    /\ last.msgs[Len(last.msgs)].level = "warning"

\* C3: when validate_dir_path rejects the destination directory, export_single
\* and export_batch display an error, call the translator for no mesh, make
\* no working copy, and return normally: export_selection goes on to reset
\* params to the settings node.
C3_InvalidDir ==
    (last.op = "export_pressed" /\ last.validated = "invalid") =>
        /\ \/ Showed("error", "invalid_export_path")
           \/ Showed("error", "batch_path_not_valid")
        /\ last.calls = <<>>
        /\ last.dups = 0
        /\ last.raised = "none"
        /\ params = load_attributes(params, params_node.attrs)

\* the directory of a batch of two meshes was rejected
C3_Witness ==
    /\ last.op = "export_pressed"
    /\ last.validated = "invalid"
    /\ Showed("error", "batch_path_not_valid")
    /\ Len(host_selection) = 2

\* C4: if any selected transform has no shape node, export_pressed displays
\* an error and exports nothing, not even the meshes selected before the
\* offending transform, and leaves params and the scene settings node as
\* they were (no settings node is created).
C4_RejectsWhole ==
    [][(/\ last'.op = "export_pressed"
        /\ \E i \in 1..Len(host_selection) : ~HasShape(host_selection[i]))
       => /\ Showed("error", "not_a_mesh")'
          /\ last'.calls = <<>>
          /\ last'.dups = 0 /\ last'.combines = 0
          /\ last'.validated = "unchecked"
          /\ params_node' = params_node
          /\ params' = (IF NeedsInstance(class_instance) THEN CtorParams ELSE params)
          /\ temps' = temps]_vars

\* a selection was rejected whose first transform is a mesh, in a scene
\* without a settings node
C4_Witness ==
    /\ last.op = "export_pressed"
    /\ last.rejected
    /\ Len(host_selection) = 2
    /\ HasShape(host_selection[1])
    /\ ~params_node.exists

\* C5: when the translator raises in export_mesh the exception is caught, an
\* error naming the mesh is displayed and export_mesh returns False; whether
\* the translator raised or not, the working copy is deleted and the host
\* selection is the original mesh when export_mesh returns.
C5_ExportMeshCleansUp ==
    Exported =>
        /\ last.raised = "none"
        /\ \A i \in 1..Len(last.calls) :
              LET call == last.calls[i]
              IN  /\ call.returned = call.ok
                  /\ ~call.ok =>
                        \E j \in 1..Len(last.msgs) :
                            /\ last.msgs[j].level = "error"
                            /\ last.msgs[j].what = "unable_to_export"
                            /\ last.msgs[j].about = call.mesh
                  /\ ExportCopy(call.mesh) \notin call.temps_after
                  /\ call.sel_after = <<call.mesh>>

\* the translator raised for one mesh and not for another
C5_Witness ==
    /\ Exported
    /\ \E i, j \in 1..Len(last.calls) : ~last.calls[i].ok /\ last.calls[j].ok

\* the five OBJ options in the order the translator's string names them
OptionOrder == <<"groups", "ptgroups", "materials", "smoothing", "normals">>

RECURSIVE OptionsFrom(_, _)
\* 'name=d' for the options from position i on, joined by ';'
OptionsFrom(p, i) ==
    LET item == OptionOrder[i] \o "=" \o (IF p["obj_" \o OptionOrder[i]] THEN "1" ELSE "0")
    IN  IF i = Len(OptionOrder) THEN item ELSE item \o ";" \o OptionsFrom(p, i + 1)

\* C8: the options string is 'groups=G;ptgroups=P;materials=M;smoothing=S;
\* normals=N' with each letter 1 iff the corresponding param is true, and the
\* translator gets this string for the params in force at the export.
C8_OptionsString ==
    Exported =>
        \A i \in 1..Len(last.calls) :
            LET call == last.calls[i]
            IN  /\ call.options = OptionsFrom(call.params, 1)
                /\ \A k \in BoolKeys : call.params[k] = params_node.attrs[k]
                /\ (\A k \in BoolKeys : call.params[k]) =>
                      call.options = "groups=1;ptgroups=1;materials=1;smoothing=1;normals=1"

\* an export with materials and normals off and the other three on
C8_Witness ==
    /\ Exported
    /\ last.calls[1].options = "groups=1;ptgroups=1;materials=0;smoothing=1;normals=0"
    /\ ~last.calls[1].params.obj_materials
    /\ ~last.calls[1].params.obj_normals

\* the import loop went through exactly these paths, in this order, and
\* reported each failure
ImportedInOrder(paths) ==
    /\ Len(last.imports) = Len(paths)
    /\ \A i \in 1..Len(paths) : last.imports[i].path = paths[i]
    /\ \A i \in 1..Len(paths) :
          ~last.imports[i].ok =>
              \E j \in 1..Len(last.msgs) :
                  /\ last.msgs[j].level = "error"
                  /\ last.msgs[j].what = "unable_to_import"
                  /\ last.msgs[j].about = paths[i]
    /\ last.raised = "none"

\* C6: an import attempts every stored import path exactly once in list
\* order; a translator failure on one file is caught and reported and the
\* remaining files are still imported.
C6_ImportsAll ==
    /\ (last.op = "import_pressed" /\ import_paths # <<>>) =>
          ImportedInOrder(import_paths)
    /\ (last.op = "import_shelf_button_alt" /\ last.picked # <<>>) =>
          ImportedInOrder(import_paths)
    /\ (last.op = "import_objs" /\ imp_import_path # <<>>) =>
          ImportedInOrder(imp_import_path)

\* an import went on to a second file after the first one failed
C6_Witness ==
    /\ last.op \in {"import_pressed", "import_objs"}
    /\ Len(last.imports) = 2
    /\ ~last.imports[1].ok
    /\ last.imports[2].ok

ShelfOps ==
    {"export_pressed", "show_export_options", "import_pressed", "import_shelf_button_alt"}

\* C7: after any presses of the four shelf buttons exactly one
\* SimpleObjExporter has been constructed and every press acted on it: a press
\* when the instance exists constructs nothing, and import_pressed imports
\* the paths an earlier press stored in the instance.
C7_OneInstance ==
    [][last'.op \in ShelfOps =>
         /\ constructed' = 1
         /\ class_instance' = 1
         /\ last'.self = 1
         /\ class_instance # NoInstance =>
               /\ class_instance' = class_instance
               /\ constructed' = constructed
               /\ (last'.op = "import_pressed" /\ import_paths # <<>>) =>
                     /\ import_paths' = import_paths
                     /\ last'.dialogs = 0
                     /\ Len(last'.imports) = Len(import_paths)
                     /\ \A i \in 1..Len(import_paths) :
                           last'.imports[i].path = import_paths[i]]_vars

\* import_pressed imported, without asking, two paths stored by an earlier
\* press, in a session in which the export buttons were used as well
C7_Witness ==
    /\ last.op = "import_pressed"
    /\ last.dialogs = 0
    /\ Len(last.imports) = 2
    /\ constructed = 1
    /\ params_node.exists

\* C9: whatever the dialog shows, load_defaults sets all twelve dialog values,
\* the file-browser style that export_options_accepted reads back included,
\* to the values of the defaults file that save_defaults wrote.
C9_LoadRestoresSaved ==
    last.op = "load_defaults" => WidgetValues(popup) = json.data

\* C10: Save Settings copies the twelve dialog values to params and to the
\* scene settings node, so that params and the node's attributes agree on
\* every key, and the next show_export_options displays the accepted values.
C10_AcceptSaves ==
    [][/\ last'.op = "export_options_accepted" =>
            /\ params' = WidgetValues(popup)
            /\ params_node'.exists
            /\ \A k \in KeySet :
                  /\ HasAttr(params_node'.attrs, k)
                  /\ params_node'.attrs[k] = params'[k]
       /\ (last.op = "export_options_accepted" /\ last'.op = "show_export_options") =>
            /\ WidgetValues(popup') = params
            /\ popup'.dialog_style_maya_rb = ~params.use_native_style]_vars

\* C11: init_export_params, as show_export_options runs it: when the scene
\* settings node exists, params are loaded from it and neither the node nor
\* the defaults file changes; when it does not, params become the defaults
\* file's record, whatever was in memory, and the node is created with exactly
\* those values.  Afterwards the node exists and agrees with params on all
\* twelve keys.
C11_InitExportParams ==
    [][last'.op = "show_export_options" =>
         LET fresh == NeedsInstance(class_instance)
             held == IF fresh THEN CtorParams ELSE params
             file == IF fresh THEN CtorJson(json) ELSE json
         IN  /\ json' = file
             /\ params_node.exists =>
                   /\ params' = load_attributes(held, params_node.attrs)
                   /\ params_node' = params_node
                   /\ last'.created = 0
             /\ ~params_node.exists =>
                   /\ file.exists
                   /\ params' = file.data
                   /\ params_node'.attrs = file.data
                   /\ last'.created = 1
             /\ params_node'.exists
             /\ \A k \in KeySet :
                   /\ HasAttr(params_node'.attrs, k)
                   /\ params_node'.attrs[k] = params'[k]]_vars

\* show_export_options created the settings node from the saved defaults
\* file in a session in which the dialog had been shown and edited before
C11_Witness ==
    /\ last.op = "show_export_options"
    /\ last.created = 1
    /\ edits = 1
    /\ json = SavedJson
    /\ params = SavedJson.data
    /\ params_node.attrs = SavedJson.data

\* what the user can do to the widgets of the open dialog
WidgetOps ==
    {"toggle", "click_radio", "edit_file_path", "edit_batch_path", "set_file_path",
     "set_batch_path", "load_defaults"}

\* C12: editing the dialog's widgets and then rejecting it changes neither
\* params nor the scene settings node, and the dialog is hidden; when the
\* dialog is launched again in that scene it shows the values params had
\* before, not the edited ones.
C12_RejectKeeps ==
    [][/\ last'.op \in WidgetOps \cup {"reject"} =>
            /\ params' = params
            /\ params_node' = params_node
       /\ last'.op = "reject" => ~popup'.visible
       /\ (/\ last.op = "reject"
           /\ last'.op = "show_export_options"
           /\ params_node.exists
           /\ params = load_attributes(params, params_node.attrs)) =>
            /\ params' = params
            /\ params_node' = params_node
            /\ WidgetValues(popup') = params
            /\ popup'.dialog_style_maya_rb = ~params.use_native_style]_vars

\* the dialog was rejected while it showed values that differ from params
C12_Witness ==
    /\ last.op = "reject"
    /\ edits = 1
    /\ WidgetValues(popup) # params
    /\ params_node.exists
    /\ params = load_attributes(params, params_node.attrs)

\* the most recent handler was an export that got as far as the translator:
\* the selection was accepted, no exception left the handler and the
\* destination directory was accepted
ExportRan ==
    /\ last.op = "export_pressed"
    /\ ~last.rejected
    /\ last.raised = "none"
    /\ last.validated = "valid"
    /\ host_selection # <<>>

\* the settings the scene node stores
Stored == params_node.attrs

\* the file a single or combined export writes: the one chosen in the path
\* dialog under always_ask, else the stored export_path
SingleDestination ==
    IF Stored.always_ask THEN show_export_file_dialog(0, "ok")[1]
    ELSE Stored.export_path

\* the directory a batch writes to: the one chosen in the path dialog under
\* always_ask, else the stored batch_export_path
BatchDirectory ==
    IF Stored.always_ask THEN show_export_file_dialog(3, "ok")[1]
    ELSE Stored.batch_export_path

\* the file a batch writes for a mesh
BatchFile(dir, mesh) == PathJoin(dir, clean_filename(mesh) \o ".obj")

\* C13: an export of one mesh calls the translator exactly once, for that
\* mesh; an export of several meshes with combine on calls it exactly once,
\* for the one combined mesh, and writes no per-mesh file in the batch
\* directory; an export of several meshes with combine off calls it once for
\* each mesh in selection order, writing <batch directory>/<clean_filename(mesh)>.obj,
\* never the stored export_path, and combines nothing.
C13_Dispatch ==
    ExportRan =>
        LET n == Len(host_selection)
        IN  /\ n = 1 =>
                  /\ Len(last.calls) = 1
                  /\ last.calls[1].mesh = host_selection[1]
                  /\ last.calls[1].file_path = SingleDestination
                  /\ last.combines = 0
            /\ (n > 1 /\ Stored.combine) =>
                  /\ Len(last.calls) = 1
                  /\ last.calls[1].mesh = Combined
                  /\ last.calls[1].file_path = SingleDestination
                  /\ last.combines = 1
                  /\ \A j \in 1..n :
                        last.calls[1].file_path
                            # BatchFile(Stored.batch_export_path, host_selection[j])
            /\ (n > 1 /\ ~Stored.combine) =>
                  /\ Len(last.calls) = n
                  /\ \A i \in 1..n :
                        /\ last.calls[i].mesh = host_selection[i]
                        /\ last.calls[i].file_path
                              = BatchFile(BatchDirectory, host_selection[i])
                        /\ last.calls[i].file_path # Stored.export_path
                  /\ last.combines = 0

\* a batch of two meshes wrote the namespaced mesh to out/batch/n_b.obj
C13_Witness ==
    /\ ExportRan
    /\ Len(host_selection) = 2
    /\ ~Stored.combine
    /\ \E i \in 1..2 :
          /\ last.calls[i].mesh = MeshB
          /\ last.calls[i].file_path = <<"out", "batch", "n_b.obj">>

\* C14: an export changes no persisted setting.  The scene settings node
\* keeps its attributes and the defaults file its record, and when
\* export_selection returns, params equal the node's values on every key:
\* the file path of each mesh of a batch and the path chosen in the
\* always-ask dialog do not stay in params.
C14_ExportKeepsSettings ==
    [][(last'.op = "export_pressed" /\ ~last'.rejected /\ host_selection # <<>>) =>
         /\ params_node.exists => params_node' = params_node
         /\ json' = (IF NeedsInstance(class_instance) THEN CtorJson(json) ELSE json)
         /\ last'.raised = "none" =>
               /\ params_node'.exists
               /\ \A k \in KeySet :
                     /\ HasAttr(params_node'.attrs, k)
                     /\ params'[k] = params_node'.attrs[k]]_vars

\* a batch of two meshes went to the directory chosen in the path dialog, and
\* params hold neither that directory nor the last mesh's file
C14_Witness ==
    /\ ExportRan
    /\ Len(last.calls) = 2
    /\ Stored.always_ask
    /\ last.calls[2].file_path = BatchFile(show_export_file_dialog(3, "ok")[1],
                                           host_selection[2])
    /\ params.batch_export_path # show_export_file_dialog(3, "ok")[1]
    /\ params.export_path # last.calls[2].file_path
    /\ \A k \in KeySet : params[k] = Stored[k]

\* the most recent handler was an export of an accepted selection
ExportAttempted ==
    /\ last.op = "export_pressed"
    /\ ~last.rejected
    /\ host_selection # <<>>

\* C15: with always_ask set an export shows the path dialog exactly once,
\* before the first translator call, whether it exports one mesh, a combined
\* mesh or a batch, and every translator call writes to the path chosen
\* there and not to the stored one; with always_ask not set no dialog is shown
\* and the translator writes to the stored export_path or under the stored
\* batch_export_path.
C15_AlwaysAsk ==
    ExportAttempted =>
        LET batch == Len(host_selection) > 1 /\ ~Stored.combine
            chosen_file == show_export_file_dialog(0, "ok")[1]
            chosen_dir == show_export_file_dialog(3, "ok")[1]
        IN  /\ Stored.always_ask =>
                  /\ last.dialogs = 1
                  /\ \A i \in 1..Len(last.calls) :
                        LET call == last.calls[i]
                        IN  /\ call.asked_before = 1
                            /\ call.file_path =
                                  (IF batch THEN BatchFile(chosen_dir, call.mesh)
                                   ELSE chosen_file)
                            /\ call.file_path # Stored.export_path
                            /\ call.file_path
                                  # BatchFile(Stored.batch_export_path, call.mesh)
            /\ ~Stored.always_ask =>
                  /\ last.dialogs = 0
                  /\ \A i \in 1..Len(last.calls) :
                        LET call == last.calls[i]
                        IN  /\ call.asked_before = 0
                            /\ call.file_path =
                                  (IF batch
                                   THEN BatchFile(Stored.batch_export_path, call.mesh)
                                   ELSE Stored.export_path)

\* one mesh was exported to the file chosen in the dialog, in a scene whose
\* stored export_path is another file
C15_Witness ==
    /\ ExportRan
    /\ Stored.always_ask
    /\ Len(host_selection) = 1
    /\ last.dialogs = 1
    /\ last.calls[1].file_path = <<"picked", "p.obj">>
    /\ Stored.export_path = <<"out", "a.obj">>

\* C16: when the user cancels the always-ask path dialog (the dialog was
\* shown and no directory was looked at), the export calls the translator
\* for no mesh, no exception leaves export_pressed, params equal the scene
\* settings node's values, the original selection is selected again and no
\* working copy stays in the scene.
C16_CancelEndsNormally ==
    [][(/\ last'.op = "export_pressed"
        /\ last'.dialogs = 1
        /\ last'.validated = "unchecked") =>
         /\ last'.calls = <<>>
         /\ last'.raised = "none"
         /\ \A k \in KeySet : params'[k] = params_node'.attrs[k]
         /\ host_selection' = host_selection
         /\ temps' = temps]_vars

\* the handler showed the import path dialog and the user cancelled it
ImportCancelled == last.dialogs = 1 /\ last.picked = <<>>

\* C17: a cancelled import path dialog triggers no import and leaves the
\* stored import paths as they were, in both tools: import_shelf_button_alt
\* imports only when the dialog gave paths (and then imports those), and
\* shelf_button_alt_clicked shows the dialog, stores what it gave if anything,
\* and never imports.
C17_CancelKeepsPaths ==
    [][/\ (last'.op \in {"import_shelf_button_alt", "import_pressed"}
           /\ ImportCancelled') =>
            /\ last'.imports = <<>>
            /\ import_paths' = import_paths
       /\ (last'.op = "import_shelf_button_alt" /\ last'.picked # <<>>) =>
            /\ import_paths' = last'.picked
            /\ Len(last'.imports) = Len(last'.picked)
       /\ (last'.op \in {"show_path_dialog", "import_objs"} /\ ImportCancelled') =>
            /\ last'.imports = <<>>
            /\ imp_import_path' = imp_import_path
       /\ last'.op = "show_path_dialog" =>
            /\ last'.dialogs = 1
            /\ last'.imports = <<>>
            /\ last'.picked # <<>> => imp_import_path' = last'.picked]_vars

\* the alternate import button's dialog was cancelled while two paths were
\* stored: nothing was imported and the two paths are still stored
C17_Witness ==
    /\ last.op = "import_shelf_button_alt"
    /\ ImportCancelled
    /\ last.imports = <<>>
    /\ Len(import_paths) = 2

\* C18: import_pressed with stored paths shows no dialog, imports exactly
\* those paths in order and keeps them stored; with none stored it shows the
\* dialog once, and then either the dialog was cancelled, a warning is
\* displayed, nothing is imported and nothing is stored, or the chosen paths
\* are stored and exactly those are imported.
C18_ImportPressed ==
    [][last'.op = "import_pressed" =>
         LET stored == IF NeedsInstance(class_instance) THEN <<>> ELSE import_paths
             imported == [i \in 1..Len(last'.imports) |-> last'.imports[i].path]
             warned == \E i \in 1..Len(last'.msgs) :
                          /\ last'.msgs[i].level = "warning"
                          /\ last'.msgs[i].what = "no_valid_paths"
         IN  /\ stored # <<>> =>
                   /\ last'.dialogs = 0
                   /\ imported = stored
                   /\ import_paths' = stored
                   /\ ~warned
             /\ stored = <<>> =>
                   /\ last'.dialogs = 1
                   /\ last'.picked = <<>> =>
                         /\ warned
                         /\ imported = <<>>
                         /\ import_paths' = <<>>
                   /\ last'.picked # <<>> =>
                         /\ ~warned
                         /\ import_paths' = last'.picked
                         /\ imported = last'.picked]_vars

\* import_pressed asked for paths, stored the two files chosen and imported
\* them in the order chosen
C18_Witness ==
    /\ last.op = "import_pressed"
    /\ last.dialogs = 1
    /\ last.picked = << <<"in", "y.obj">>, <<"in", "x.obj">> >>
    /\ import_paths = last.picked
    /\ Len(last.imports) = 2
    /\ last.imports[1].path = <<"in", "y.obj">>

====
